---- MODULE Spec2Model ----
(***************************************************************************)
(* A model of skribbl-capture: the HTTP recording session of src/web.go    *)
(* (handleStartRecording, handleStopRecording, handleStatus), the          *)
(* multi-device terminal program kept in src/web.go (main, lines 370-524)  *)
(* and the single-device terminal program of src/main.go, together with    *)
(* the audio backend's per-buffer callbacks and the files they write.      *)
(*                                                                         *)
(* Granularity.  A handler is a sequence of steps taken while it holds     *)
(* recordingMutex; the backend's callbacks interleave with those steps.    *)
(* One iteration of a setup loop is one step: a callback of another        *)
(* channel commutes with it (it writes at its own descriptor's offset,     *)
(* never below the header), and the channel's own callback cannot run      *)
(* before device.Start().  The teardown of a channel is four steps         *)
(* (Uninit, Seek, writeWAVHeader, Close) so that the order of the code is  *)
(* visible to the properties.                                              *)
(* A callback is two steps: the backend calls it (Deliver), and it writes,  *)
(* counts and returns (onRecvFrames).  device.Uninit() is two steps as     *)
(* well: it stops the stream, and it returns once no callback of the       *)
(* stream is running.                                                      *)
(*                                                                         *)
(* Functions.  writeWAVHeader, the counter's addition, sanitizeFilename    *)
(* and handleDownloadRecording are also applied on their own (FnSpec), to  *)
(* inputs that no bounded session supplies.                                *)
(*                                                                         *)
(* Environment.  os.Create, malgo.InitDevice, device.Start and             *)
(* malgoContext.Devices may fail; a callback's file.Write may accept fewer *)
(* bytes than offered.  writeWAVHeader ignores the result of its writes    *)
(* and always returns nil; its 44 bytes are taken to reach the file.       *)
(***************************************************************************)
EXTENDS Integers, Sequences, FiniteSets, TLC

(***************************************************************************)
(* Bounds of the model.                                                    *)
(***************************************************************************)
MaxChans == 2       \* captureDevice objects created in one run (and indices in one request)
MaxCallbacks == 2   \* buffers the backend delivers in one run
MaxTime == 1        \* seconds the wall clock advances in one run
MaxLen == 3         \* characters of a file name or device name given to a function on its own

(***************************************************************************)
(* Program constants.                                                      *)
(***************************************************************************)
SampleRate == 44100
Channels == 1
BitsPerSample == 16

Threads == {"t1", "t2"}  \* HTTP request goroutines; t1 is main() in the terminal programs
Main == "t1"
NoThread == "none"

BufSizes == {256, 512, 1024}

\* The enumerations the backend may return (device display names, as
\* sequences of characters).
NameA == <<"A", " ", "1">>
NameB == <<"b", "-", "2">>
NameC == <<"A", "_", "1">>
DeviceLists == {<<NameA, NameB>>, <<NameA, NameC>>}

Indices == {-1, 0, 1, 2}

Max(a, b) == IF a >= b THEN a ELSE b

SeqsUpTo(S, n) == UNION {[1..m -> S] : m \in 0..n}

Range(s) == {s[i] : i \in 1..Len(s)}

(***************************************************************************)
(* sanitizeFilename and the terminal program's file name.                  *)
(***************************************************************************)
LowerSeq == <<"a","b","c","d","e","f","g","h","i","j","k","l","m",
              "n","o","p","q","r","s","t","u","v","w","x","y","z">>
UpperSeq == <<"A","B","C","D","E","F","G","H","I","J","K","L","M",
              "N","O","P","Q","R","S","T","U","V","W","X","Y","Z">>
DigitSeq == <<"0","1","2","3","4","5","6","7","8","9">>

\* A faulty variant: only the space is replaced.
sanitizeSpaceOnly(r) == IF r = " " THEN "_" ELSE r

sanitizeRune(r) ==
  IF r \in Range(LowerSeq) \/ r \in Range(UpperSeq) \/ r \in Range(DigitSeq) \/ r = "-"
  THEN r ELSE "_"

sanitizeFilename(name) == [i \in 1..Len(name) |-> sanitizeRune(name[i])]

ToLowerRune(r) ==
  IF r \in Range(UpperSeq)
  THEN LowerSeq[CHOOSE i \in 1..Len(UpperSeq) : UpperSeq[i] = r]
  ELSE r

\* strings.ReplaceAll(strings.ToLower(deviceName), " ", "_")
cliFilename(name) ==
  [i \in 1..Len(name) |-> IF ToLowerRune(name[i]) = " " THEN "_" ELSE ToLowerRune(name[i])]

\* filepath.Join(outputDirectory, timestamp + "_" + sanitized + ".wav")
WebPath(stamp, name) == [dir |-> "recordings", stamp |-> stamp, base |-> sanitizeFilename(name)]
CliPath(name) == [dir |-> ".", stamp |-> 0, base |-> cliFilename(name)]
Cli1Path == [dir |-> ".", stamp |-> 0, base |-> <<"r","e","c","o","r","d","i","n","g">>]

(***************************************************************************)
(* handleDownloadRecording.  Paths are sequences of characters.            *)
(***************************************************************************)
outputDirectory == <<"r", "e", "c", "o", "r", "d", "i", "n", "g", "s">>
DownloadPrefix == <<"/">> \o outputDirectory \o <<"/">>

PathChars == {"a", ".", "/"}

\* strings.HasPrefix / filepath.HasPrefix
HasPrefix(s, prefix) == Len(s) >= Len(prefix) /\ SubSeq(s, 1, Len(prefix)) = prefix

\* The elements of a path between its separators (empty ones included).
RECURSIVE Split(_, _)
Split(p, cur) ==
  IF p = <<>> THEN <<cur>>
  ELSE IF Head(p) = "/" THEN <<cur>> \o Split(Tail(p), <<>>)
  ELSE Split(Tail(p), Append(cur, Head(p)))

\* filepath.Base: the last element; trailing separators are removed first.
RECURSIVE StripTrailing(_)
StripTrailing(p) ==
  IF Len(p) > 0 /\ p[Len(p)] = "/" THEN StripTrailing(SubSeq(p, 1, Len(p) - 1)) ELSE p

Base(path) ==
  IF path = <<>> THEN <<".">>
  ELSE LET stripped == StripTrailing(path)
           elems == Split(stripped, <<>>)
           last == elems[Len(elems)]
       IN IF last = <<>> THEN <<"/">> ELSE last

\* filepath.Clean of a relative path: "." and empty elements go, ".." takes
\* the element before it with it, nothing left is ".".
RECURSIVE Resolve(_, _)
Resolve(elems, kept) ==
  IF elems = <<>> THEN kept
  ELSE IF Head(elems) = <<>> \/ Head(elems) = <<".">> THEN Resolve(Tail(elems), kept)
  ELSE IF Head(elems) = <<".", ".">> /\ kept # <<>> /\ kept[Len(kept)] # <<".", ".">>
       THEN Resolve(Tail(elems), SubSeq(kept, 1, Len(kept) - 1))
  ELSE Resolve(Tail(elems), Append(kept, Head(elems)))

RECURSIVE Unsplit(_)
Unsplit(elems) ==
  IF elems = <<>> THEN <<".">>
  ELSE IF Len(elems) = 1 THEN elems[1]
  ELSE elems[1] \o <<"/">> \o Unsplit(Tail(elems))

Clean(p) == Unsplit(Resolve(Split(p, <<>>), <<>>))

\* filepath.Join(dir, elem), both non-empty
Join(dir, elem) == Clean(dir \o <<"/">> \o elem)

\* net/http containsDotDot: ServeFile refuses a URL path with a ".." element.
containsDotDot(urlPath) == \E i \in 1..Len(Split(urlPath, <<>>)) : Split(urlPath, <<>>)[i] = <<".", ".">>

\* http.ServeFile(w, r, name): what is sent for the name.  The recordings
\* directory and the working directory are directories: a directory is
\* answered with a redirect when the URL path does not end in a separator,
\* and with its listing (or its index.html) when it does.
ServeFile(urlPath, name) ==
  IF containsDotDot(urlPath) THEN "refused"
  ELSE IF name = outputDirectory \/ name = <<".">>
       THEN IF urlPath[Len(urlPath)] = "/" THEN "directory" ELSE "redirect"
  ELSE "file"

\* web.go:257-268
handleDownloadRecording(urlPath) ==
  LET filename == SubSeq(urlPath, Len(DownloadPrefix) + 1, Len(urlPath))
      fullPath == Join(outputDirectory, Base(filename))
  IN [fn |-> "handleDownloadRecording", filename |-> filename, fullPath |-> fullPath,
      out |-> IF ~HasPrefix(fullPath, outputDirectory) THEN "InvalidFilename"
              ELSE ServeFile(urlPath, fullPath)]

(***************************************************************************)
(* Files.  A file is its length and what its first 44 bytes hold.          *)
(***************************************************************************)
\* 4+4+4 + 4+4+2+2+4+4+2+2 + 4+4 bytes written by writeWAVHeader
HeaderSize == (4 + 4 + 4) + (4 + 4 + 2 + 2 + 4 + 4 + 2 + 2) + (4 + 4)

NoHeader == [kind |-> "none", riff |-> 0, fmtLen |-> 0, tag |-> 0, nch |-> 0, rate |-> 0,
             byteRate |-> 0, align |-> 0, bits |-> 0, data |-> 0]
ZeroHeader == [NoHeader EXCEPT !.kind = "zero"]
GarbledHeader == [NoHeader EXCEPT !.kind = "garbled"]

\* The fields writeWAVHeader writes.
encodeHeader(sampleRate, channels, bitsPerSample, dataSize) ==
  [kind |-> "wav",
   riff |-> 36 + dataSize,
   fmtLen |-> 16,
   tag |-> 1,
   nch |-> channels,
   rate |-> sampleRate,
   byteRate |-> (sampleRate * channels * bitsPerSample) \div 8,
   align |-> (channels * bitsPerSample) \div 8,
   bits |-> bitsPerSample,
   data |-> dataSize]

(***************************************************************************)
(* 32-bit unsigned arithmetic.  A uint32 is kept as two 16-bit halves (its *)
(* value is hi * 65536 + lo), so that every intermediate result stays      *)
(* within the model checker's integers and every operation wraps as Go's   *)
(* does.                                                                   *)
(***************************************************************************)
Half == 256 * 256

\* The uint32 of a small natural number (below 2^31).
U32(n) == [hi |-> n \div Half, lo |-> n % Half]

MaxU32 == [hi |-> Half - 1, lo |-> Half - 1]

\* a + b on uint32
Add32(a, b) ==
  LET lo == a.lo + b.lo
  IN [hi |-> (a.hi + b.hi + lo \div Half) % Half, lo |-> lo % Half]

\* a * m on uint32, for one byte m
MulByte(a, m) ==
  LET lo == a.lo * m
  IN [hi |-> (a.hi * m + lo \div Half) % Half, lo |-> lo % Half]

\* a << 8 on uint32
Shl8(a) == [hi |-> (a.hi % 256) * 256 + a.lo \div 256, lo |-> (a.lo % 256) * 256]

\* a * b on uint32: the four partial products by the bytes of b
Mul32(a, b) ==
  Add32(Add32(MulByte(a, b.lo % 256),
              Shl8(MulByte(a, b.lo \div 256))),
        Add32(Shl8(Shl8(MulByte(a, b.hi % 256))),
              Shl8(Shl8(Shl8(MulByte(a, b.hi \div 256))))))

\* a / 8 on uint32
Div32By8(a) == [hi |-> a.hi \div 8, lo |-> ((a.hi % 8) * Half + a.lo) \div 8]

\* uint16(a)
uint16(a) == a.lo

\* a < b on uint32
Less32(a, b) == a.hi < b.hi \/ (a.hi = b.hi /\ a.lo < b.lo)

\* A faulty variant: the most significant byte first.
BigEndian32(a) == <<a.hi \div 256, a.hi % 256, a.lo \div 256, a.lo % 256>>

\* binary.Write(file, binary.LittleEndian, v) for a uint32 and for a uint16
LittleEndian32(a) == <<a.lo % 256, a.lo \div 256, a.hi % 256, a.hi \div 256>>
LittleEndian16(x) == <<x % 256, x \div 256>>

\* file.WriteString: the bytes of the four tags
TagRIFF == <<82, 73, 70, 70>>
TagWAVE == <<87, 65, 86, 69>>
TagFmt == <<102, 109, 116, 32>>
TagData == <<100, 97, 116, 97>>

\* The bytes writeWAVHeader writes, in the order it writes them.
writeWAVHeader(sampleRate, channels, bitsPerSample, dataSize) ==
  TagRIFF
  \o LittleEndian32(Add32(U32(36), dataSize))
  \o TagWAVE
  \o TagFmt
  \o LittleEndian32(U32(16))
  \o LittleEndian16(1)
  \o LittleEndian16(uint16(channels))
  \o LittleEndian32(sampleRate)
  \o LittleEndian32(Div32By8(Mul32(Mul32(sampleRate, channels), bitsPerSample)))
  \o LittleEndian16(uint16(Div32By8(Mul32(channels, bitsPerSample))))
  \o LittleEndian16(uint16(bitsPerSample))
  \o TagData
  \o LittleEndian32(dataSize)

EmptyFile == [len |-> 0, hdr |-> NoHeader]

\* n > 0 bytes of payload written at offset pos.
FileWriteBytes(f, pos, n) ==
  [len |-> Max(f.len, pos + n),
   hdr |-> IF pos < HeaderSize THEN GarbledHeader
           ELSE IF f.hdr.kind = "none" THEN ZeroHeader
           ELSE f.hdr]

\* The 44 bytes of a header written at offset pos.
FileWriteHeader(f, pos, h) ==
  IF pos = 0 THEN [len |-> Max(f.len, HeaderSize), hdr |-> h]
  ELSE FileWriteBytes(f, pos, HeaderSize)

(***************************************************************************)
(* State.                                                                  *)
(***************************************************************************)
VARIABLES
  mode,            \* "web" | "cli" (web.go main) | "cli1" (main.go main)
  infos,           \* the backend's enumeration: device names
  now,             \* wall clock, in seconds
  fs,              \* path -> file
  chans,           \* id -> the captureDevice objects that are still reachable
  isRecording,     \* web.go:17
  activeCaptures,  \* web.go:19 (channel ids)
  recordingMutex,  \* web.go:18: the holder, or NoThread
  pc, req, captures, k, stamp,   \* per thread: position and locals
  resp,            \* the latest response (HTTP) or final message (terminal)
  ncb,             \* callbacks delivered so far
  made,            \* captureDevice objects created so far
  calc             \* a function of the program applied on its own: input and result

vars == <<mode, infos, now, fs, chans, isRecording, activeCaptures, recordingMutex,
          pc, req, captures, k, stamp, resp, ncb, made, calc>>

session == <<isRecording, activeCaptures>>
locals == <<pc, req, captures, k, stamp>>

NoResp == [op |-> "none", code |-> "none", rec |-> FALSE, devs |-> <<>>]

NoCalc == [fn |-> "none"]

Init ==
  /\ calc = NoCalc
  /\ mode \in {"web", "cli", "cli1"}
  /\ infos \in DeviceLists
  /\ now = 0
  /\ fs = [p \in {} |-> EmptyFile]
  /\ chans = [c \in {} |-> 0]
  /\ isRecording = FALSE
  /\ activeCaptures = <<>>
  /\ recordingMutex = NoThread
  /\ pc = [t \in Threads |-> "idle"]
  /\ req = [t \in Threads |-> <<>>]
  /\ captures = [t \in Threads |-> <<>>]
  /\ k = [t \in Threads |-> 1]
  /\ stamp = [t \in Threads |-> 0]
  /\ resp = NoResp
  /\ ncb = 0
  /\ made = 0

(***************************************************************************)
(* Operations on one channel, shared by the three programs.                *)
(***************************************************************************)
NewChan(idx, path) ==
  [dev |-> idx, name |-> infos[idx + 1], path |-> path,
   fd |-> "open", pos |-> 0, stream |-> "none",
   totalBytesWritten |-> 0,
   busy |-> FALSE,      \* the stream's callback is running
   received |-> 0,      \* bytes the sink accepted from this channel's callback
   patches |-> 0,       \* header rewrites after the recording
   seeked |-> FALSE,    \* file.Seek(0, 0) was called for the header rewrite
   late |-> 0]          \* callback writes that came after that Seek

\* The identity of the next object allocated.
NewId == made + 1

\* The objects still reachable once thread t has returned: those of the
\* session, those other threads hold, and those a running stream's callback holds.
Collect(all, active, t) ==
  LET live == {c \in DOMAIN all :
                 \/ all[c].stream \in {"started", "stopping"}
                 \/ c \in Range(active)
                 \/ \E u \in Threads \ {t} : c \in Range(captures[u])}
  IN [c \in live |-> all[c]]

\* os.Create: a new, or truncated, empty file.
Create(files, path) == (path :> EmptyFile) @@ files

\* writeWAVHeader(c.file, ...) at the descriptor's offset.
WriteHeaderOf(files, c, dataSize) ==
  IF c.fd = "open"
  THEN [files EXCEPT ![c.path] =
          FileWriteHeader(@, c.pos, encodeHeader(SampleRate, Channels, BitsPerSample, dataSize))]
  ELSE files

AfterHeader(c) == IF c.fd = "open" THEN [c EXCEPT !.pos = @ + HeaderSize] ELSE c

\* device.Uninit() first stops the stream: the backend starts no further
\* callback of it.
StopStream(c) == [c EXCEPT !.stream = "stopping"]

\* device.Uninit() returns once the stream's callback is not running.
Uninit(c) == [c EXCEPT !.stream = "uninit"]

\* One step of device.Uninit() on channel id: the stop, or (done) the return.
UninitStep(id, done) ==
  IF chans[id].stream = "started"
  THEN ~done /\ chans' = [chans EXCEPT ![id] = StopStream(@)]
  ELSE /\ done
       /\ ~chans[id].busy
       /\ chans' = [chans EXCEPT ![id] = Uninit(@)]

\* cap.file.Seek(0, 0)
SeekStart(c) == IF c.fd = "open" THEN [c EXCEPT !.pos = 0, !.seeked = TRUE] ELSE c

\* writeWAVHeader(cap.file, 44100, 1, 16, cap.totalBytesWritten)
PatchFile(files, c) == WriteHeaderOf(files, c, c.totalBytesWritten)
Patched(c) == [AfterHeader(c) EXCEPT !.patches = @ + 1]

\* A faulty variant: the file is left open.
CloseSkipped(c) == c

\* cap.file.Close()
CloseFile(c) == [c EXCEPT !.fd = "closed", !.pos = 0]

\* What file.Write may accept of a buffer of s bytes.
Accepted(c, s) == IF c.fd = "open" THEN {s, 0} ELSE {0}

(***************************************************************************)
(* onRecvFrames: the backend delivers one buffer to a started stream.      *)
(***************************************************************************)
\* cap.totalBytesWritten += uint32(n), for the totals a bounded session
\* reaches (far below 2^32, where Count32 wraps)
Count(total, n) == total + n

\* cap.totalBytesWritten += uint32(n), on uint32
Count32(total, n) == Add32(total, U32(n))

\* The backend calls the callback of a started stream with one buffer.
Deliver(c) ==
  /\ c \in DOMAIN chans
  /\ chans[c].stream = "started"
  /\ ~chans[c].busy
  /\ ncb < MaxCallbacks
  /\ chans' = [chans EXCEPT ![c].busy = TRUE]
  /\ ncb' = ncb + 1
  /\ UNCHANGED <<calc, mode, infos, now, fs, session, recordingMutex, locals, resp, made>>

\* A faulty variant: the callback takes recordingMutex before it writes.
onRecvFramesLocked(c) ==
  /\ c \in DOMAIN chans
  /\ chans[c].busy
  /\ recordingMutex = NoThread
  /\ \E s \in BufSizes : \E n \in Accepted(chans[c], s) :
       /\ fs' = IF n > 0
                THEN [fs EXCEPT ![chans[c].path] = FileWriteBytes(@, chans[c].pos, n)]
                ELSE fs
       /\ chans' = [chans EXCEPT ![c] =
                      [@ EXCEPT !.pos = @ + n,
                                !.totalBytesWritten = Count(@, n),
                                !.received = @ + n,
                                !.busy = FALSE,
                                !.late = IF chans[c].seeked /\ n > 0 THEN @ + 1 ELSE @]]
  /\ UNCHANGED <<calc, mode, infos, now, session, recordingMutex, locals, resp, ncb, made>>

\* The callback: it writes the buffer, counts what was accepted, and returns.
onRecvFrames(c) ==
  /\ c \in DOMAIN chans
  /\ chans[c].busy
  /\ \E s \in BufSizes : \E n \in Accepted(chans[c], s) :
       /\ fs' = IF n > 0
                THEN [fs EXCEPT ![chans[c].path] = FileWriteBytes(@, chans[c].pos, n)]
                ELSE fs
       /\ chans' = [chans EXCEPT ![c] =
                      [@ EXCEPT !.pos = @ + n,
                                !.totalBytesWritten = Count(@, n),
                                !.received = @ + n,
                                !.busy = FALSE,
                                !.late = IF chans[c].seeked /\ n > 0 THEN @ + 1 ELSE @]]
  /\ UNCHANGED <<calc, mode, infos, now, session, recordingMutex, locals, resp, ncb, made>>

\* The wall clock advances by a second.
Tick ==
  /\ mode = "web"
  /\ now < MaxTime
  /\ now' = now + 1
  /\ UNCHANGED <<calc, mode, infos, fs, chans, session, recordingMutex, locals, resp, ncb, made>>

(***************************************************************************)
(* The HTTP handlers.                                                      *)
(***************************************************************************)
\* A faulty variant: a mutex that never blocks.
LockNotExclusive(t) == TRUE

\* recordingMutex.Lock() returns when the mutex is free.
Lock(t) == recordingMutex = NoThread

Response(op, code) ==
  [op |-> op, code |-> code, rec |-> FALSE, devs |-> <<>>]

ResetLocals(t) ==
  /\ pc' = [pc EXCEPT ![t] = "idle"]
  /\ req' = [req EXCEPT ![t] = <<>>]
  /\ captures' = [captures EXCEPT ![t] = <<>>]
  /\ k' = [k EXCEPT ![t] = 1]
  /\ stamp' = [stamp EXCEPT ![t] = 0]

\* http.Error / the JSON answer, return, and the deferred Unlock.
Return(t, op, code) ==
  /\ resp' = Response(op, code)
  /\ recordingMutex' = NoThread
  /\ ResetLocals(t)

Bodies ==
  {[ok |-> FALSE, ids |-> <<>>]} \cup {[ok |-> TRUE, ids |-> s] : s \in SeqsUpTo(Indices, MaxChans)}

\* A faulty variant: the flag is not consulted.
AlwaysAccepted == FALSE

\* web.go:101
AlreadyRecording == isRecording

\* A faulty variant: the empty list is let through.
NeverEmpty(ids) == FALSE

\* web.go:112
NoDevicesSelected(ids) == Len(ids) = 0

\* web.go:97-126: the checks before the loop.
StartBegin(t, body) ==
  /\ mode = "web"
  /\ pc[t] = "idle"
  /\ Lock(t)
  /\ IF AlreadyRecording
     THEN Return(t, "start", "AlreadyRecording") /\ UNCHANGED <<fs, chans, session>>
     ELSE IF ~body.ok
     THEN Return(t, "start", "InvalidBody") /\ UNCHANGED <<fs, chans, session>>
     ELSE IF NoDevicesSelected(body.ids)
     THEN Return(t, "start", "NoDevicesSelected") /\ UNCHANGED <<fs, chans, session>>
     ELSE \E enumerated \in BOOLEAN :
            IF ~enumerated
            THEN Return(t, "start", "DeviceEnumerationFailed") /\ UNCHANGED <<fs, chans, session>>
            ELSE /\ made + Len(body.ids) <= MaxChans
                 /\ recordingMutex' = t
                 /\ pc' = [pc EXCEPT ![t] =
                             IF Len(body.ids) = 0 THEN "start_publish" ELSE "start_loop"]
                 /\ req' = [req EXCEPT ![t] = body.ids]
                 /\ captures' = [captures EXCEPT ![t] = <<>>]
                 /\ k' = [k EXCEPT ![t] = 1]
                 /\ stamp' = [stamp EXCEPT ![t] = now]
                 /\ UNCHANGED <<fs, chans, session, resp>>
  /\ UNCHANGED <<calc, mode, infos, now, ncb, made>>

ValidIndex(idx) == ~(idx < 0 \/ idx >= Len(infos))

SetupOutcomes == {"create_failed", "init_failed", "start_failed", "ok"}

\* A faulty variant: the channel is put in front.
Prepended(caps, id) == <<id>> \o caps

\* web.go:168: captures = append(captures, cap)
Collected(caps, id) == Append(caps, id)

\* web.go:128-194: one iteration of the loop over req.DeviceIndices.
StartDevice(t) ==
  /\ mode = "web"
  /\ pc[t] = "start_loop"
  /\ LET idx == req[t][k[t]]
         id == NewId
     IN IF ~ValidIndex(idx)
        THEN /\ Return(t, "start", "InvalidDeviceIndex")
             /\ chans' = Collect(chans, activeCaptures, t)
             /\ UNCHANGED <<fs, session, made>>
        ELSE \E outcome \in SetupOutcomes :
          LET path == WebPath(stamp[t], infos[idx + 1])
              c0 == NewChan(idx, path)
              f1 == WriteHeaderOf(Create(fs, path), c0, 0)
              c1 == AfterHeader(c0)
          IN CASE outcome = "create_failed" ->
                    /\ Return(t, "start", "FileCreateFailed")
                    /\ chans' = Collect(chans, activeCaptures, t)
                    /\ UNCHANGED <<fs, session, made>>
               [] outcome = "init_failed" ->
                    /\ fs' = f1
                    /\ chans' = Collect((id :> CloseFile(c1)) @@ chans, activeCaptures, t)
                    /\ Return(t, "start", "StreamInitFailed")
                    /\ made' = made + 1
                    /\ UNCHANGED session
               [] outcome = "start_failed" ->
                    /\ fs' = f1
                    /\ chans' = Collect((id :> CloseFile(Uninit(c1))) @@ chans, activeCaptures, t)
                    /\ Return(t, "start", "StreamStartFailed")
                    /\ made' = made + 1
                    /\ UNCHANGED session
               [] outcome = "ok" ->
                    /\ fs' = f1
                    /\ chans' = (id :> [c1 EXCEPT !.stream = "started"]) @@ chans
                    /\ captures' = [captures EXCEPT ![t] = Collected(@, id)]
                    /\ k' = [k EXCEPT ![t] = @ + 1]
                    /\ pc' = [pc EXCEPT ![t] =
                                IF k[t] = Len(req[t]) THEN "start_publish" ELSE "start_loop"]
                    /\ made' = made + 1
                    /\ UNCHANGED <<session, recordingMutex, req, stamp, resp>>
  /\ UNCHANGED <<calc, mode, infos, now, ncb>>

\* web.go:196
StartPublish(t) ==
  /\ pc[t] = "start_publish"
  /\ activeCaptures' = captures[t]
  /\ pc' = [pc EXCEPT ![t] = "start_finish"]
  /\ UNCHANGED <<calc, mode, infos, now, fs, chans, isRecording, recordingMutex,
                 req, captures, k, stamp, resp, ncb, made>>

\* web.go:197-201
StartFinish(t) ==
  /\ pc[t] = "start_finish"
  /\ isRecording' = TRUE
  /\ Return(t, "start", "started")
  /\ UNCHANGED <<calc, mode, infos, now, fs, chans, activeCaptures, ncb, made>>

\* web.go:204-214: the check, and the range over activeCaptures.
StopBegin(t) ==
  /\ mode = "web"
  /\ pc[t] = "idle"
  /\ Lock(t)
  /\ IF ~isRecording
     THEN Return(t, "stop", "NotRecording")
     ELSE /\ recordingMutex' = t
          /\ captures' = [captures EXCEPT ![t] = activeCaptures]
          /\ k' = [k EXCEPT ![t] = 1]
          /\ pc' = [pc EXCEPT ![t] = IF Len(activeCaptures) = 0 THEN "stop_clear" ELSE "stop_uninit"]
          /\ UNCHANGED <<req, stamp, resp>>
  /\ UNCHANGED <<calc, mode, infos, now, fs, chans, session, ncb, made>>

Cur(t) == captures[t][k[t]]

\* web.go:215
StopUninit(t) ==
  /\ pc[t] = "stop_uninit"
  /\ \E done \in BOOLEAN :
       /\ UninitStep(Cur(t), done)
       /\ pc' = [pc EXCEPT ![t] = IF done THEN "stop_seek" ELSE @]
  /\ UNCHANGED <<calc, mode, infos, now, fs, session, recordingMutex, req, captures, k, stamp, resp, ncb, made>>

\* web.go:218
StopSeek(t) ==
  /\ pc[t] = "stop_seek"
  /\ chans' = [chans EXCEPT ![Cur(t)] = SeekStart(@)]
  /\ pc' = [pc EXCEPT ![t] = "stop_patch"]
  /\ UNCHANGED <<calc, mode, infos, now, fs, session, recordingMutex, req, captures, k, stamp, resp, ncb, made>>

\* web.go:219
StopPatch(t) ==
  /\ pc[t] = "stop_patch"
  /\ fs' = PatchFile(fs, chans[Cur(t)])
  /\ chans' = [chans EXCEPT ![Cur(t)] = Patched(@)]
  /\ pc' = [pc EXCEPT ![t] = "stop_close"]
  /\ UNCHANGED <<calc, mode, infos, now, session, recordingMutex, req, captures, k, stamp, resp, ncb, made>>

\* web.go:220, and the next iteration
StopClose(t) ==
  /\ pc[t] = "stop_close"
  /\ chans' = [chans EXCEPT ![Cur(t)] = CloseFile(@)]
  /\ k' = [k EXCEPT ![t] = @ + 1]
  /\ pc' = [pc EXCEPT ![t] = IF k[t] = Len(captures[t]) THEN "stop_clear" ELSE "stop_uninit"]
  /\ UNCHANGED <<calc, mode, infos, now, fs, session, recordingMutex, req, captures, stamp, resp, ncb, made>>

\* A faulty variant: the list of the stopped session is kept.
StopClearKept(t) ==
  /\ pc[t] = "stop_clear"
  /\ activeCaptures' = activeCaptures
  /\ pc' = [pc EXCEPT ![t] = "stop_finish"]
  /\ UNCHANGED <<calc, mode, infos, now, fs, chans, isRecording, recordingMutex,
                 req, captures, k, stamp, resp, ncb, made>>

\* web.go:223
StopClear(t) ==
  /\ pc[t] = "stop_clear"
  /\ activeCaptures' = <<>>
  /\ pc' = [pc EXCEPT ![t] = "stop_finish"]
  /\ UNCHANGED <<calc, mode, infos, now, fs, chans, isRecording, recordingMutex,
                 req, captures, k, stamp, resp, ncb, made>>

\* web.go:224-228
StopFinish(t) ==
  /\ pc[t] = "stop_finish"
  /\ isRecording' = FALSE
  /\ Return(t, "stop", "stopped")
  /\ chans' = Collect(chans, activeCaptures, t)
  /\ UNCHANGED <<calc, mode, infos, now, fs, activeCaptures, ncb, made>>

\* A faulty variant: asking for the status ends the session.
handleStatusResets(t) ==
  /\ mode = "web"
  /\ pc[t] = "idle"
  /\ Lock(t)
  /\ resp' = [Response("status", "ok") EXCEPT !.rec = isRecording]
  /\ isRecording' = FALSE
  /\ activeCaptures' = <<>>
  /\ UNCHANGED <<calc, mode, infos, now, fs, chans, recordingMutex, locals, ncb, made>>

\* web.go:78-94
handleStatus(t) ==
  /\ mode = "web"
  /\ pc[t] = "idle"
  /\ Lock(t)
  /\ resp' = [Response("status", "ok") EXCEPT
                !.rec = isRecording,
                !.devs = [i \in 1..Len(activeCaptures) |-> chans[activeCaptures[i]].name]]
  /\ UNCHANGED <<calc, mode, infos, now, fs, chans, session, recordingMutex, locals, ncb, made>>

(***************************************************************************)
(* The multi-device terminal program (src/web.go, main).                   *)
(***************************************************************************)
\* One comma-separated part of the input line: a number, or not.
Tokens == {[num |-> TRUE, val |-> i] : i \in Indices} \cup {[num |-> FALSE, val |-> 0]}
Inputs == SeqsUpTo(Tokens, MaxChans) \ {<<>>}

BadPart(tok) == ~tok.num \/ ~ValidIndex(tok.val)

\* return from main: the process ends, and with it its streams and descriptors.
Exit(t, code) ==
  /\ resp' = Response("cli", code)
  /\ chans' = [c \in {} |-> 0]
  /\ pc' = [pc EXCEPT ![t] = "exited"]
  /\ req' = [req EXCEPT ![t] = <<>>]
  /\ captures' = [captures EXCEPT ![t] = <<>>]
  /\ k' = [k EXCEPT ![t] = 1]
  /\ UNCHANGED stamp

\* web.go:400-435: strings.Split never returns an empty list.
CliParse(input) ==
  /\ mode = "cli"
  /\ pc[Main] = "idle"
  /\ Len(input) <= MaxChans
  /\ IF \E i \in 1..Len(input) : BadPart(input[i])
     THEN LET i == CHOOSE j \in 1..Len(input) :
                     BadPart(input[j]) /\ \A h \in 1..(j - 1) : ~BadPart(input[h])
          IN /\ Exit(Main, IF ~input[i].num THEN "NotANumber" ELSE "InvalidDeviceIndex")
             /\ UNCHANGED fs
     ELSE IF Len(input) = 0
     THEN Exit(Main, "NoDevicesSelected") /\ UNCHANGED fs
     ELSE /\ req' = [req EXCEPT ![Main] = [i \in 1..Len(input) |-> input[i].val]]
          /\ pc' = [pc EXCEPT ![Main] = "cli_setup"]
          /\ UNCHANGED <<fs, chans, captures, k, stamp, resp>>
  /\ UNCHANGED <<calc, mode, infos, now, session, recordingMutex, ncb, made>>

\* web.go:437-494: one iteration of the setup loop.
CliSetup ==
  /\ pc[Main] = "cli_setup"
  /\ LET idx == req[Main][k[Main]]
         id == NewId
         path == CliPath(infos[idx + 1])
         c0 == NewChan(idx, path)
         f1 == WriteHeaderOf(Create(fs, path), c0, 0)
         c1 == AfterHeader(c0)
         last == k[Main] = Len(req[Main])
     IN \E outcome \in SetupOutcomes \ {"start_failed"} :
          CASE outcome = "create_failed" ->
                 Exit(Main, "FileCreateFailed") /\ UNCHANGED <<fs, made>>
            [] outcome = "init_failed" ->
                 /\ fs' = f1
                 /\ made' = made + 1
                 /\ Exit(Main, "StreamInitFailed")
            [] outcome = "ok" ->
                 /\ fs' = f1
                 /\ made' = made + 1
                 /\ chans' = (id :> [c1 EXCEPT !.stream = "inited"]) @@ chans
                 /\ captures' = [captures EXCEPT ![Main] = Collected(@, id)]
                 /\ k' = [k EXCEPT ![Main] = IF last THEN 1 ELSE @ + 1]
                 /\ pc' = [pc EXCEPT ![Main] = IF last THEN "cli_start" ELSE "cli_setup"]
                 /\ UNCHANGED <<req, stamp, resp>>
  /\ UNCHANGED <<calc, mode, infos, now, session, recordingMutex, ncb>>

\* web.go:497-504: one iteration of the start loop.
CliStart ==
  /\ pc[Main] = "cli_start"
  /\ LET last == k[Main] = Len(captures[Main])
     IN \E started \in BOOLEAN :
          IF ~started
          THEN Exit(Main, "StreamStartFailed")
          ELSE /\ chans' = [chans EXCEPT ![Cur(Main)].stream = "started"]
               /\ k' = [k EXCEPT ![Main] = IF last THEN 1 ELSE @ + 1]
               /\ pc' = [pc EXCEPT ![Main] = IF last THEN "cli_wait" ELSE "cli_start"]
               /\ UNCHANGED <<req, captures, stamp, resp>>
  /\ UNCHANGED <<calc, mode, infos, now, fs, session, recordingMutex, ncb, made>>

\* web.go:506-507: the user presses Enter.
CliEnter ==
  /\ pc[Main] = "cli_wait"
  /\ pc' = [pc EXCEPT ![Main] = "cli_uninit"]
  /\ UNCHANGED <<calc, mode, infos, now, fs, chans, session, recordingMutex,
                 req, captures, k, stamp, resp, ncb, made>>

\* web.go:513
CliUninit ==
  /\ pc[Main] = "cli_uninit"
  /\ \E done \in BOOLEAN :
       /\ UninitStep(Cur(Main), done)
       /\ pc' = [pc EXCEPT ![Main] = IF done THEN "cli_seek" ELSE @]
  /\ UNCHANGED <<calc, mode, infos, now, fs, session, recordingMutex, req, captures, k, stamp, resp, ncb, made>>

\* web.go:516
CliSeek ==
  /\ pc[Main] = "cli_seek"
  /\ chans' = [chans EXCEPT ![Cur(Main)] = SeekStart(@)]
  /\ pc' = [pc EXCEPT ![Main] = "cli_patch"]
  /\ UNCHANGED <<calc, mode, infos, now, fs, session, recordingMutex, req, captures, k, stamp, resp, ncb, made>>

\* web.go:517
CliPatch ==
  /\ pc[Main] = "cli_patch"
  /\ fs' = PatchFile(fs, chans[Cur(Main)])
  /\ chans' = [chans EXCEPT ![Cur(Main)] = Patched(@)]
  /\ pc' = [pc EXCEPT ![Main] = "cli_close"]
  /\ UNCHANGED <<calc, mode, infos, now, session, recordingMutex, req, captures, k, stamp, resp, ncb, made>>

\* web.go:518-520
CliClose ==
  /\ pc[Main] = "cli_close"
  /\ chans' = [chans EXCEPT ![Cur(Main)] = CloseFile(@)]
  /\ k' = [k EXCEPT ![Main] = @ + 1]
  /\ pc' = [pc EXCEPT ![Main] = IF k[Main] = Len(captures[Main]) THEN "cli_saved" ELSE "cli_uninit"]
  /\ UNCHANGED <<calc, mode, infos, now, fs, session, recordingMutex, req, captures, stamp, resp, ncb, made>>

\* web.go:523-524
CliSaved ==
  /\ pc[Main] = "cli_saved"
  /\ Exit(Main, "saved")
  /\ UNCHANGED <<calc, mode, infos, now, fs, session, recordingMutex, ncb, made>>

(***************************************************************************)
(* The single-device terminal program (src/main.go, main).  Its stream,    *)
(* file and counter are locals of main; they are channel 1 here.           *)
(***************************************************************************)
\* main.go:73-159
Cli1Setup(tok) ==
  /\ mode = "cli1"
  /\ pc[Main] = "idle"
  /\ IF ~tok.num
     THEN Exit(Main, "NotANumber") /\ UNCHANGED <<fs, made>>
     ELSE IF ~ValidIndex(tok.val)
     THEN Exit(Main, "InvalidDeviceIndex") /\ UNCHANGED <<fs, made>>
     ELSE \E outcome \in SetupOutcomes :
       LET c0 == NewChan(tok.val, Cli1Path)
           f1 == WriteHeaderOf(Create(fs, Cli1Path), c0, 0)
           c1 == AfterHeader(c0)
       IN CASE outcome = "create_failed" ->
                 Exit(Main, "FileCreateFailed") /\ UNCHANGED <<fs, made>>
            [] outcome = "init_failed" ->
                 /\ fs' = f1
                 /\ made' = made + 1
                 /\ Exit(Main, "StreamInitFailed")
            [] outcome = "start_failed" ->
                 /\ fs' = f1
                 /\ made' = made + 1
                 /\ Exit(Main, "StreamStartFailed")
            [] outcome = "ok" ->
                 /\ fs' = f1
                 /\ made' = made + 1
                 /\ chans' = (NewId :> [c1 EXCEPT !.stream = "started"]) @@ chans
                 /\ captures' = [captures EXCEPT ![Main] = <<NewId>>]
                 /\ pc' = [pc EXCEPT ![Main] = "cli1_wait"]
                 /\ UNCHANGED <<req, k, stamp, resp>>
  /\ UNCHANGED <<calc, mode, infos, now, session, recordingMutex, ncb>>

\* main.go:161-164: the user presses Enter.
Cli1Enter ==
  /\ pc[Main] = "cli1_wait"
  /\ pc' = [pc EXCEPT ![Main] = "cli1_seek"]
  /\ UNCHANGED <<calc, mode, infos, now, fs, chans, session, recordingMutex,
                 req, captures, k, stamp, resp, ncb, made>>

\* main.go:168
Cli1Seek ==
  /\ pc[Main] = "cli1_seek"
  /\ chans' = [chans EXCEPT ![Cur(Main)] = SeekStart(@)]
  /\ pc' = [pc EXCEPT ![Main] = "cli1_patch"]
  /\ UNCHANGED <<calc, mode, infos, now, fs, session, recordingMutex, req, captures, k, stamp, resp, ncb, made>>

\* main.go:171-178
Cli1Patch ==
  /\ pc[Main] = "cli1_patch"
  /\ fs' = PatchFile(fs, chans[Cur(Main)])
  /\ chans' = [chans EXCEPT ![Cur(Main)] = Patched(@)]
  /\ pc' = [pc EXCEPT ![Main] = "cli1_uninit"]
  /\ UNCHANGED <<calc, mode, infos, now, session, recordingMutex, req, captures, k, stamp, resp, ncb, made>>

\* main.go:150, run at return: defer device.Uninit()
Cli1DeferUninit ==
  /\ pc[Main] = "cli1_uninit"
  /\ \E done \in BOOLEAN :
       /\ UninitStep(Cur(Main), done)
       /\ pc' = [pc EXCEPT ![Main] = IF done THEN "cli1_close" ELSE @]
  /\ UNCHANGED <<calc, mode, infos, now, fs, session, recordingMutex, req, captures, k, stamp, resp, ncb, made>>

\* main.go:117, run at return: defer outputFile.Close()
Cli1DeferClose ==
  /\ pc[Main] = "cli1_close"
  /\ chans' = [chans EXCEPT ![Cur(Main)] = CloseFile(@)]
  /\ pc' = [pc EXCEPT ![Main] = "cli1_saved"]
  /\ UNCHANGED <<calc, mode, infos, now, fs, session, recordingMutex, req, captures, k, stamp, resp, ncb, made>>

\* the process ends
Cli1Saved ==
  /\ pc[Main] = "cli1_saved"
  /\ Exit(Main, "saved")
  /\ UNCHANGED <<calc, mode, infos, now, fs, session, recordingMutex, ncb, made>>

Next ==
  \/ \E c \in 1..MaxChans : Deliver(c)
  \/ \E c \in 1..MaxChans : onRecvFrames(c)
  \/ Tick
  \/ \E t \in Threads : \E body \in Bodies : StartBegin(t, body)
  \/ \E t \in Threads : StartDevice(t)
  \/ \E t \in Threads : StartPublish(t)
  \/ \E t \in Threads : StartFinish(t)
  \/ \E t \in Threads : StopBegin(t)
  \/ \E t \in Threads : StopUninit(t)
  \/ \E t \in Threads : StopSeek(t)
  \/ \E t \in Threads : StopPatch(t)
  \/ \E t \in Threads : StopClose(t)
  \/ \E t \in Threads : StopClear(t)
  \/ \E t \in Threads : StopFinish(t)
  \/ \E t \in Threads : handleStatus(t)
  \/ \E input \in Inputs : CliParse(input)
  \/ CliSetup
  \/ CliStart
  \/ CliEnter
  \/ CliUninit
  \/ CliSeek
  \/ CliPatch
  \/ CliClose
  \/ CliSaved
  \/ \E tok \in Tokens : Cli1Setup(tok)
  \/ Cli1Enter
  \/ Cli1Seek
  \/ Cli1Patch
  \/ Cli1DeferUninit
  \/ Cli1DeferClose
  \/ Cli1Saved

Spec == Init /\ [][Next]_vars

(***************************************************************************)
(* Scheduling.  A goroutine that is inside a handler and can take its next *)
(* step takes it, and a callback that is running and can return returns.   *)
(* Nothing obliges a client to send a request, the backend to deliver a    *)
(* buffer, or the user to press Enter.                                     *)
(***************************************************************************)
HandlerStep(t) ==
  \/ StartDevice(t) \/ StartPublish(t) \/ StartFinish(t)
  \/ StopUninit(t) \/ StopSeek(t) \/ StopPatch(t) \/ StopClose(t)
  \/ StopClear(t) \/ StopFinish(t)

FairSpec ==
  /\ Spec
  /\ \A t \in Threads : WF_vars(HandlerStep(t))
  /\ \A c \in 1..MaxChans : WF_vars(onRecvFrames(c))

(***************************************************************************)
(* The functions of the program applied on their own, to inputs the        *)
(* sessions above never supply.                                            *)
(***************************************************************************)
program == <<mode, infos, now, fs, chans, isRecording, activeCaptures, recordingMutex,
             pc, req, captures, k, stamp, resp, ncb, made>>

FnInit ==
  /\ calc = NoCalc
  /\ mode = "fn"
  /\ infos = <<>>
  /\ now = 0
  /\ fs = [p \in {} |-> EmptyFile]
  /\ chans = [c \in {} |-> 0]
  /\ isRecording = FALSE
  /\ activeCaptures = <<>>
  /\ recordingMutex = NoThread
  /\ pc = [t \in Threads |-> "idle"]
  /\ req = [t \in Threads |-> <<>>]
  /\ captures = [t \in Threads |-> <<>>]
  /\ k = [t \in Threads |-> 1]
  /\ stamp = [t \in Threads |-> 0]
  /\ resp = NoResp
  /\ ncb = 0
  /\ made = 0

SampleRates == {U32(1), U32(8000), U32(44100), U32(48000), U32(Half),
                [hi |-> Half \div 2, lo |-> 0], MaxU32}
ChannelCounts == {U32(1), U32(2), U32(255), U32(Half - 1), U32(Half), U32(Half + 1)}
BitDepths == {U32(8), U32(16), U32(24), U32(32)}
DataSizes == {U32(0), U32(1000), U32(88200),
              [hi |-> Half - 1, lo |-> Half - 37], [hi |-> Half - 1, lo |-> Half - 36], MaxU32}

\* One call of writeWAVHeader on an empty file.
WavHeader(sampleRate, channels, bitsPerSample, dataSize) ==
  /\ calc = NoCalc
  /\ calc' = [fn |-> "writeWAVHeader",
              sampleRate |-> sampleRate, channels |-> channels,
              bitsPerSample |-> bitsPerSample, dataSize |-> dataSize,
              out |-> writeWAVHeader(sampleRate, channels, bitsPerSample, dataSize)]
  /\ UNCHANGED program

\* The totals a channel's counter may hold when a buffer arrives: those of
\* a fresh channel and of one that has recorded for over thirteen hours.
Totals == {U32(0), U32(1024), U32(88200),
           [hi |-> Half - 1, lo |-> Half - 1024], [hi |-> Half - 1, lo |-> Half - 300],
           [hi |-> Half - 1, lo |-> Half - 256], MaxU32}

\* One buffer, of which the sink accepted n bytes, counted on a channel
\* whose counter holds total.
Counted(total, n) ==
  /\ calc = NoCalc
  /\ calc' = [fn |-> "onRecvFrames", total |-> total, n |-> n, left |-> MaxCallbacks - 1,
              out |-> Count32(total, n)]
  /\ UNCHANGED program

\* The next buffer of the same channel.
CountedNext(n) ==
  /\ calc.fn = "onRecvFrames"
  /\ calc.left > 0
  /\ calc' = [calc EXCEPT !.total = calc.out, !.n = n, !.left = @ - 1,
                          !.out = Count32(calc.out, n)]
  /\ UNCHANGED program

\* GET /recordings/<filename>
Download(filename) ==
  /\ calc = NoCalc
  /\ calc' = handleDownloadRecording(DownloadPrefix \o filename)
  /\ UNCHANGED program

\* Characters of a device name: letters, a digit, the hyphen, the
\* underscore, and characters sanitizeFilename replaces.
NameChars == {"a", "Z", "5", "-", "_", " ", "!", "/", "."}
BlackHole == <<"B", "l", "a", "c", "k", "H", "o", "l", "e", " ", "2", "c", "h", "!">>

\* One call of sanitizeFilename.
Sanitize(name) ==
  /\ calc = NoCalc
  /\ calc' = [fn |-> "sanitizeFilename", name |-> name, out |-> sanitizeFilename(name)]
  /\ UNCHANGED program

FnNext ==
  \/ \E sampleRate \in SampleRates : \E channels \in ChannelCounts :
       \E bitsPerSample \in BitDepths : \E dataSize \in DataSizes :
         WavHeader(sampleRate, channels, bitsPerSample, dataSize)
  \/ \E total \in Totals : \E n \in BufSizes \cup {0} : Counted(total, n)
  \/ \E n \in BufSizes \cup {0} : CountedNext(n)
  \/ \E filename \in SeqsUpTo(PathChars, MaxLen) : Download(filename)
  \/ \E name \in SeqsUpTo(NameChars, MaxLen) \cup {BlackHole} : Sanitize(name)

FnSpec == FnInit /\ [][FnNext]_vars

(***************************************************************************)
(* Properties.                                                             *)
(***************************************************************************)
Free == recordingMutex = NoThread

\* The step is thread t returning from the handler position p.
Returns(t, p) == pc[t] = p /\ pc'[t] = "idle"

\* A response is given by the step.
Answers(op) == resp' # resp /\ resp'.op = op

EnvFailures ==
  {"DeviceEnumerationFailed", "FileCreateFailed", "StreamInitFailed", "StreamStartFailed"}

SomeInvalid(ids) == \E i \in 1..Len(ids) : ~ValidIndex(ids[i])

FileOf(c) == fs[chans[c].path]

\* C1: a start request that finds isRecording true is answered
\* AlreadyRecording, and the step leaves the flag, the active list, every
\* channel (sink, stream, counter) and every file as they were; no start
\* request is answered anything else while isRecording is true.
C1_StartWhileActiveRejected ==
  [][(isRecording /\ Answers("start")) =>
       (/\ resp'.code = "AlreadyRecording"
        /\ UNCHANGED <<isRecording, activeCaptures, chans, fs, made>>)]_vars

C1_Witness ==
  /\ resp.op = "start" /\ resp.code = "AlreadyRecording"
  /\ isRecording
  /\ Len(activeCaptures) = 2
  /\ \E c \in Range(activeCaptures) :
       /\ chans[c].totalBytesWritten > 0
       /\ chans[c].stream = "started"
       /\ chans[c].fd = "open"

\* C2: when the stop loop has finished, the file of every channel of the
\* stopped session has a header whose data length is the number of bytes
\* the channel's sink received, whose total size is 36 more, and the file
\* is 44 bytes longer than that number.
C2_CompletedFile ==
  \A t \in Threads :
    (mode = "web" /\ pc[t] \in {"stop_clear", "stop_finish"}) =>
      \A i \in 1..Len(captures[t]) :
        LET c == captures[t][i] IN
          /\ FileOf(c).hdr.kind = "wav"
          /\ FileOf(c).hdr.data = chans[c].received
          /\ FileOf(c).hdr.riff = 36 + chans[c].received
          /\ FileOf(c).len = HeaderSize + chans[c].received

\* C3: in every program a channel's stream is released before its file is
\* repositioned for the header rewrite, the header is rewritten at most
\* once and with the counter's final value, and no callback writes to the
\* file after the repositioning.
C3_StopOrder ==
  \A c \in DOMAIN chans :
    /\ chans[c].seeked => chans[c].stream = "uninit"
    /\ chans[c].late = 0
    /\ chans[c].patches <= 1
    /\ chans[c].patches = 1 => chans[c].stream = "uninit"

\* C4: once a start request has returned, every running stream and every
\* open sink belongs to a channel of the active session.
C4_AllOrNothing ==
  (mode = "web" /\ Free) =>
    \A c \in DOMAIN chans :
      (chans[c].stream = "started" \/ chans[c].fd = "open") => c \in Range(activeCaptures)

\* C5: a start request that reached the device loop with an index out of
\* range anywhere in its list is answered InvalidDeviceIndex, and leaves
\* the session inactive with an empty active list.
C5_InvalidIndexAnywhere ==
  [][\A t \in Threads :
       (Returns(t, "start_loop") /\ SomeInvalid(req[t])) =>
         (/\ resp'.code = "InvalidDeviceIndex"
          /\ ~isRecording' /\ activeCaptures' = <<>>)]_vars

\* C6: a start request with an empty index list, arriving while no session
\* is active, is answered NoDevicesSelected in one step that creates no
\* file and no channel and leaves the session inactive and its list empty.
C6_EmptySelectionRejected ==
  [][\A t \in Threads :
       (~isRecording /\ StartBegin(t, [ok |-> TRUE, ids |-> <<>>])) =>
         (/\ resp'.op = "start" /\ resp'.code = "NoDevicesSelected"
          /\ pc'[t] = "idle"
          /\ UNCHANGED <<fs, chans, made>>
          /\ ~isRecording' /\ activeCaptures' = <<>>)]_vars

C6_Witness ==
  /\ resp.op = "start" /\ resp.code = "NoDevicesSelected"
  /\ ~isRecording /\ activeCaptures = <<>>
  /\ Free

\* C7: a start request with a non-empty list of in-range indices, arriving
\* while no session is active, fails only by a failure of the backend or of
\* the file system; when it returns "started" the session is active and
\* the active list holds one started channel per index, in the order of
\* the request, each bound to the device at that index.
C7_ValidStartSucceeds ==
  [][\A t \in Threads :
       /\ \A body \in Bodies :
            (/\ ~isRecording /\ body.ok /\ Len(body.ids) > 0 /\ ~SomeInvalid(body.ids)
             /\ StartBegin(t, body)) =>
              (pc'[t] = "start_loop" \/ resp'.code \in EnvFailures)
       /\ (Returns(t, "start_loop") /\ ~SomeInvalid(req[t])) => resp'.code \in EnvFailures
       /\ (pc[t] = "start_loop" /\ pc'[t] = "start_publish") => Len(captures'[t]) = Len(req[t])
       /\ (pc[t] = "start_publish" /\ pc'[t] # pc[t]) => activeCaptures' = captures[t]
       /\ Returns(t, "start_finish") =>
            /\ resp'.op = "start" /\ resp'.code = "started"
            /\ isRecording'
            /\ Len(activeCaptures') = Len(req[t])
            /\ \A i \in 1..Len(req[t]) :
                 LET c == chans'[activeCaptures'[i]] IN
                   /\ c.dev = req[t][i]
                   /\ c.name = infos[req[t][i] + 1]
                   /\ c.stream = "started"
                   /\ c.fd = "open"]_vars

C7_Witness ==
  /\ resp.op = "start" /\ resp.code = "started"
  /\ Free /\ isRecording
  /\ Len(activeCaptures) = 2
  /\ chans[activeCaptures[1]].dev = 1
  /\ chans[activeCaptures[2]].dev = 0

\* C8: a stop request that finds no session active is answered
\* NotRecording in a step that changes nothing; a stop request that finds
\* one takes the active list, and when it returns every channel of that
\* list has its stream released and its sink closed, the flag is false and
\* the active list is empty.
C8_Stop ==
  [][\A t \in Threads :
       /\ (~isRecording /\ StopBegin(t)) =>
            (/\ resp'.op = "stop" /\ resp'.code = "NotRecording"
             /\ pc'[t] = "idle"
             /\ UNCHANGED <<isRecording, activeCaptures, chans, fs>>)
       /\ (isRecording /\ StopBegin(t)) =>
            (captures'[t] = activeCaptures /\ pc'[t] \in {"stop_uninit", "stop_clear"})
       /\ (pc[t] \in {"stop_uninit", "stop_seek", "stop_patch", "stop_close", "stop_clear"})
            => pc'[t] # "idle"
       /\ Returns(t, "stop_finish") =>
            /\ resp'.op = "stop" /\ resp'.code = "stopped"
            /\ ~isRecording' /\ activeCaptures' = <<>>
            /\ \A c \in Range(captures[t]) :
                 chans[c].stream = "uninit" /\ chans[c].fd = "closed"]_vars

C8_Witness ==
  /\ resp.op = "stop" /\ resp.code = "stopped"
  /\ Free /\ ~isRecording /\ activeCaptures = <<>>
  /\ \E p \in DOMAIN fs : fs[p].hdr.kind = "wav" /\ fs[p].hdr.data > 0

\* C9: a thread is inside a handler only while it holds the lock; a status
\* answer is either (false, no devices) or (true, the names of the active
\* list), and then every channel of the list is started with its sink open;
\* a start request returns "started" only if no session was active.
ActiveNames == [i \in 1..Len(activeCaptures) |-> chans[activeCaptures[i]].name]

C9_Atomic ==
  [][/\ \A t \in Threads : (mode' = "web" /\ pc'[t] # "idle") => recordingMutex' = t
     /\ Answers("status") =>
          \/ (resp'.rec = FALSE /\ resp'.devs = <<>>)
          \/ /\ resp'.rec = TRUE
             /\ resp'.devs # <<>>
             /\ resp'.devs = ActiveNames
             /\ \A c \in Range(activeCaptures) :
                  chans[c].stream = "started" /\ chans[c].fd = "open"
     /\ \A t \in Threads : Returns(t, "start_finish") => ~isRecording]_vars

C9_Witness ==
  /\ resp.op = "status" /\ resp.rec = TRUE /\ Len(resp.devs) = 2
  /\ isRecording /\ Free

\* C10: a channel's counter has been read for the header rewrite only if
\* the channel's stream has been released.
C10_ReadAfterStop ==
  \A c \in DOMAIN chans : chans[c].patches > 0 => chans[c].stream # "started"

(***************************************************************************)
(* Natural numbers of any size, for the values the statements speak of: a  *)
(* number is the sequence of its base-256 digits, least significant first. *)
(***************************************************************************)
Digit(x, i) == IF i <= Len(x) THEN x[i] ELSE 0

NatEq(x, y) == \A i \in 1..Max(Len(x), Len(y)) : Digit(x, i) = Digit(y, i)

\* The value of a uint32.
NatOf(a) == <<a.lo % 256, a.lo \div 256, a.hi % 256, a.hi \div 256>>

RECURSIVE Carried(_, _, _)
Carried(coefs, i, carry) ==
  IF i > Len(coefs) THEN <<>>
  ELSE <<(coefs[i] + carry) % 256>> \o Carried(coefs, i + 1, (coefs[i] + carry) \div 256)

NatAdd(x, y) ==
  Carried([i \in 1..(Max(Len(x), Len(y)) + 1) |-> Digit(x, i) + Digit(y, i)], 1, 0)

RECURSIVE Convolve(_, _, _, _)
Convolve(x, y, n, i) ==
  IF i > n THEN 0 ELSE Digit(x, i) * Digit(y, n + 1 - i) + Convolve(x, y, n, i + 1)

NatMul(x, y) == Carried([n \in 1..(Len(x) + Len(y)) |-> Convolve(x, y, n, 1)], 1, 0)

\* x \div 8, from the most significant digit down; rem is the remainder carried.
NatDiv8(x) ==
  LET Quot[i \in 0..Len(x)] ==
        IF i = Len(x) THEN [q |-> <<>>, rem |-> 0]
        ELSE LET up == Quot[i + 1]
                 v == up.rem * 256 + x[i + 1]
             IN [q |-> <<v \div 8>> \o up.q, rem |-> v % 8]
  IN Quot[0].q

\* x modulo 256^n, and whether x is below 256^n.
NatLow(x, n) == [i \in 1..n |-> Digit(x, i)]
NatFits(x, n) == \A i \in (n + 1)..Len(x) : x[i] = 0

\* The little-endian field of width n at offset off of a byte sequence.
Field(bytes, off, n) == SubSeq(bytes, off + 1, off + n)

\* C11 (as stated): for every positive sample rate and channel count,
\* every sample width of 8, 16, 24 or 32 bits and every payload size,
\* writeWAVHeader emits 44 bytes whose little-endian fields are
\* 36 + payloadSize, 16, 1, channels, sampleRate,
\* sampleRate*channels*bitsPerSample/8, channels*bitsPerSample/8,
\* bitsPerSample and payloadSize, as numbers.
C11_HeaderFields ==
  calc.fn = "writeWAVHeader" =>
    LET h == calc.out
        sr == NatOf(calc.sampleRate)
        ch == NatOf(calc.channels)
        bits == NatOf(calc.bitsPerSample)
        size == NatOf(calc.dataSize)
    IN /\ Len(h) = 44
       /\ NatEq(Field(h, 4, 4), NatAdd(<<36>>, size))
       /\ NatEq(Field(h, 16, 4), <<16>>)
       /\ NatEq(Field(h, 20, 2), <<1>>)
       /\ NatEq(Field(h, 22, 2), ch)
       /\ NatEq(Field(h, 24, 4), sr)
       /\ NatEq(Field(h, 28, 4), NatDiv8(NatMul(NatMul(sr, ch), bits)))
       /\ NatEq(Field(h, 32, 2), NatDiv8(NatMul(ch, bits)))
       /\ NatEq(Field(h, 34, 2), bits)
       /\ NatEq(Field(h, 40, 4), size)

\* The inputs for which every value of C11 fits its field.
C11_InRange ==
  /\ NatFits(NatAdd(<<36>>, NatOf(calc.dataSize)), 4)
  /\ NatFits(NatOf(calc.channels), 2)
  /\ NatFits(NatDiv8(NatMul(NatOf(calc.channels), NatOf(calc.bitsPerSample))), 2)
  /\ NatFits(NatMul(NatMul(NatOf(calc.sampleRate), NatOf(calc.channels)),
                    NatOf(calc.bitsPerSample)), 4)

\* The inputs small enough for the record of fields that the sessions keep
\* of a header (encodeHeader).
C11_Small ==
  /\ calc.sampleRate.hi = 0 /\ calc.dataSize.hi = 0
  /\ calc.channels.hi = 0 /\ calc.channels.lo <= 255

\* C11 (amended): writeWAVHeader emits 44 bytes: the four tags at offsets
\* 0, 8, 12 and 36, and little-endian fields that hold the stated values
\* reduced as the code's types reduce them: 36 + payloadSize modulo 2^32,
\* channels modulo 2^16, each product modulo 2^32 before the division by 8,
\* the block alignment modulo 2^16 after it.  The fields are the stated
\* numbers themselves whenever 36 + payloadSize and
\* sampleRate*channels*bitsPerSample are below 2^32 and channels and
\* channels*bitsPerSample/8 are below 2^16.
C11_HeaderFieldsModulo ==
  calc.fn = "writeWAVHeader" =>
    LET h == calc.out
        sr == NatOf(calc.sampleRate)
        ch == NatOf(calc.channels)
        bits == NatOf(calc.bitsPerSample)
        size == NatOf(calc.dataSize)
    IN /\ Len(h) = 44
       /\ Field(h, 0, 4) = TagRIFF /\ Field(h, 8, 4) = TagWAVE
       /\ Field(h, 12, 4) = TagFmt /\ Field(h, 36, 4) = TagData
       /\ NatEq(Field(h, 4, 4), NatLow(NatAdd(<<36>>, size), 4))
       /\ NatEq(Field(h, 16, 4), <<16>>)
       /\ NatEq(Field(h, 20, 2), <<1>>)
       /\ NatEq(Field(h, 22, 2), NatLow(ch, 2))
       /\ NatEq(Field(h, 24, 4), sr)
       /\ NatEq(Field(h, 28, 4), NatDiv8(NatLow(NatMul(NatLow(NatMul(sr, ch), 4), bits), 4)))
       /\ NatEq(Field(h, 32, 2), NatLow(NatDiv8(NatLow(NatMul(ch, bits), 4)), 2))
       /\ NatEq(Field(h, 34, 2), bits)
       /\ NatEq(Field(h, 40, 4), size)
       /\ C11_InRange => C11_HeaderFields
       /\ C11_Small =>
            LET e == encodeHeader(calc.sampleRate.lo, calc.channels.lo,
                                  calc.bitsPerSample.lo, calc.dataSize.lo)
            IN /\ Field(h, 4, 4) = NatOf(U32(e.riff)) /\ Field(h, 16, 4) = NatOf(U32(e.fmtLen))
               /\ Field(h, 20, 2) = NatLow(NatOf(U32(e.tag)), 2)
               /\ Field(h, 22, 2) = NatLow(NatOf(U32(e.nch)), 2)
               /\ Field(h, 24, 4) = NatOf(U32(e.rate)) /\ Field(h, 28, 4) = NatOf(U32(e.byteRate))
               /\ Field(h, 32, 2) = NatLow(NatOf(U32(e.align)), 2)
               /\ Field(h, 34, 2) = NatLow(NatOf(U32(e.bits)), 2)
               /\ Field(h, 40, 4) = NatOf(U32(e.data))

\* 44100 Hz, 2 channels, 24 bits, 1000 bytes: byte rate 264600 = 04 09 98 hex.
C11_Witness ==
  /\ calc.fn = "writeWAVHeader"
  /\ calc.sampleRate = U32(44100) /\ calc.channels = U32(2)
  /\ calc.bitsPerSample = U32(24) /\ calc.dataSize = U32(1000)
  /\ Field(calc.out, 28, 4) = <<152, 9, 4, 0>>
  /\ Field(calc.out, 4, 4) = <<12, 4, 0, 0>>
  /\ Field(calc.out, 32, 2) = <<6, 0>>
  /\ C11_InRange

\* C12: the step that rewrites a channel's header (in any of the three
\* programs) writes at offset 0 of a file that begins with the placeholder
\* header or with an earlier rewrite of it, so that no payload byte is
\* overwritten; it changes the total-size field to 36 + the counter and the
\* data-length field to the counter and no other field; it leaves the
\* file's length as it was and the descriptor at byte 44.
C12_PatchFrame ==
  [][\A c \in DOMAIN chans :
       (c \in DOMAIN chans' /\ chans'[c].patches = chans[c].patches + 1) =>
         LET before == fs[chans[c].path]
             after == fs'[chans[c].path]
             total == chans[c].totalBytesWritten
         IN /\ chans[c].pos = 0
            /\ before.hdr.kind = "wav"
            /\ after.hdr = [before.hdr EXCEPT !.riff = 36 + total, !.data = total]
            /\ after.len = before.len
            /\ chans'[c].pos = HeaderSize]_vars

\* C13: no delivered buffer makes a channel's counter smaller, whatever
\* the counter held before, totals of 2^32 bytes and more included.  (That
\* the counter of a new channel is 0 is NewChan.)
C13_CounterMonotonic ==
  calc.fn = "onRecvFrames" => ~Less32(calc.out, calc.total)

\* C14: whatever follows /recordings/ in the request path, the download
\* handler sends something only for a path strictly inside the recordings
\* directory: the directory, a separator and one element that is not empty,
\* not "." and not "..".
C14_OnlyInside ==
  (calc.fn = "handleDownloadRecording" /\ calc.out \in {"file", "directory"}) =>
    /\ calc.out = "file"
    /\ HasPrefix(calc.fullPath, outputDirectory \o <<"/">>)
    /\ LET rest == SubSeq(calc.fullPath, Len(outputDirectory) + 2, Len(calc.fullPath))
       IN /\ rest # <<>> /\ rest # <<".">> /\ rest # <<".", ".">>
          /\ \A i \in 1..Len(rest) : rest[i] # "/"

\* C15: sanitizeFilename returns as many characters as the name has, in
\* the same order: a character of [A-Za-z0-9-] is kept, every other
\* character is "_"; so the result has only characters of [A-Za-z0-9-_],
\* and "BlackHole 2ch!" gives "BlackHole_2ch_".
C15_Kept ==
  {"a", "b", "c", "d", "e", "f", "g", "h", "i", "j", "k", "l", "m",
   "n", "o", "p", "q", "r", "s", "t", "u", "v", "w", "x", "y", "z",
   "A", "B", "C", "D", "E", "F", "G", "H", "I", "J", "K", "L", "M",
   "N", "O", "P", "Q", "R", "S", "T", "U", "V", "W", "X", "Y", "Z",
   "0", "1", "2", "3", "4", "5", "6", "7", "8", "9", "-"}

C15_Sanitized ==
  calc.fn = "sanitizeFilename" =>
    /\ Len(calc.out) = Len(calc.name)
    /\ \A i \in 1..Len(calc.name) :
         /\ calc.name[i] \in C15_Kept => calc.out[i] = calc.name[i]
         /\ calc.name[i] \notin C15_Kept => calc.out[i] = "_"
         /\ calc.out[i] \in C15_Kept \cup {"_"}
    /\ calc.name = BlackHole =>
         calc.out = <<"B", "l", "a", "c", "k", "H", "o", "l", "e", "_", "2", "c", "h", "_">>

C15_Witness ==
  /\ calc.fn = "sanitizeFilename"
  /\ calc.name = BlackHole
  /\ calc.out[10] = "_" /\ calc.out[14] = "_" /\ calc.out[1] = "B"

\* C16: a status request is answered with the isRecording flag and with
\* the names of the channels of the active list, in the order of the list,
\* as they are when it is served; serving it changes neither the flag, nor
\* the list, nor any channel (counter, sink, stream), nor any file, and
\* leaves the lock free.
C16_StatusPureRead ==
  [][Answers("status") =>
       /\ resp'.code = "ok"
       /\ resp'.rec = isRecording
       /\ Len(resp'.devs) = Len(activeCaptures)
       /\ \A i \in 1..Len(activeCaptures) : resp'.devs[i] = chans[activeCaptures[i]].name
       /\ UNCHANGED <<isRecording, activeCaptures, chans, fs, pc, captures, made, ncb>>
       /\ recordingMutex' = NoThread]_vars

C16_Witness ==
  /\ resp.op = "status" /\ resp.rec
  /\ resp.devs = <<NameB, NameA>>
  /\ Len(activeCaptures) = 2
  /\ chans[activeCaptures[1]].name = NameB /\ chans[activeCaptures[2]].name = NameA
  /\ chans[activeCaptures[1]].totalBytesWritten > 0
  /\ chans[activeCaptures[1]].stream = "started"

\* C17: while a session is active (the web session with its flag set, the
\* multi-device terminal program while it waits for Enter), no two
\* channels of the session have the same output file.
DistinctSinks(caps) ==
  \A i, j \in 1..Len(caps) : i # j => chans[caps[i]].path # chans[caps[j]].path

C17_ExclusiveSinks ==
  /\ (mode = "web" /\ isRecording) => DistinctSinks(activeCaptures)
  /\ (mode = "cli" /\ pc[Main] = "cli_wait") => DistinctSinks(captures[Main])

\* C18: in the programs of src/web.go a channel's stream is opened and
\* started only after its file was created and the 44-byte placeholder
\* written through its descriptor; so every buffer a callback writes goes
\* to a file that begins with a header, at an offset of 44 or more, and at
\* or before the end of the file: the payload of every file begins at
\* byte 44 and has no gap.
C18_HeaderFirst ==
  [][(mode \in {"web", "cli"}) =>
       \A c \in DOMAIN chans :
        (/\ chans[c].stream \in {"inited", "started"} => chans[c].pos >= HeaderSize
         /\ (c \in DOMAIN chans' /\ chans'[c].received > chans[c].received) =>
              (/\ FileOf(c).hdr.kind = "wav"
               /\ chans[c].pos >= HeaderSize
               /\ chans[c].pos <= FileOf(c).len))]_vars

\* C19: a callback whose write fails (the sink accepts none of the buffer)
\* leaves the session flag and the active list as they were and every
\* stream in the state it was in; every callback advances its channel's
\* counter by the bytes its sink accepted and by nothing else; and after a
\* failed write every running channel's counter is still the payload
\* length of its file (the file's length less the 44 bytes of the header).
CallbackReturns ==
  \E c \in DOMAIN chans : c \in DOMAIN chans' /\ chans[c].busy /\ ~chans'[c].busy

FailedWrite ==
  /\ CallbackReturns
  /\ \A c \in DOMAIN chans : chans'[c].received = chans[c].received

C19_WriteFailure ==
  [][/\ CallbackReturns =>
          /\ UNCHANGED <<isRecording, activeCaptures, pc>>
          /\ DOMAIN chans' = DOMAIN chans
          /\ \A c \in DOMAIN chans :
               /\ chans'[c].stream = chans[c].stream
               /\ chans'[c].totalBytesWritten - chans[c].totalBytesWritten
                    = chans'[c].received - chans[c].received
     /\ FailedWrite =>
          \A c \in DOMAIN chans :
            (chans[c].stream = "started" /\ chans[c].fd = "open" /\ ~chans[c].seeked) =>
              chans'[c].totalBytesWritten = fs'[chans[c].path].len - HeaderSize]_vars

\* C20: a running callback can always return, whoever holds the lock; and
\* every request that has entered its handler returns, with the lock
\* released, the stop request that waits for the streams' callbacks
\* included.
C20_RequestsReturn ==
  /\ [](\A c \in DOMAIN chans : chans[c].busy => ENABLED onRecvFrames(c))
  /\ \A t \in Threads :
       (mode = "web" /\ pc[t] # "idle") ~> (pc[t] = "idle" /\ recordingMutex # t)

\* A stop request holds the lock and waits for a stream whose callback is running.
C20_Witness ==
  \E t \in Threads :
    /\ mode = "web" /\ pc[t] = "stop_uninit" /\ recordingMutex = t
    /\ chans[Cur(t)].stream = "stopping"
    /\ chans[Cur(t)].busy

\* C21: whenever no request holds recordingMutex, isRecording is true
\* exactly when activeCaptures is non-empty, whatever start and stop
\* requests, accepted or rejected, came before.
C21_FlagMatchesList ==
  recordingMutex = NoThread => (isRecording <=> Len(activeCaptures) > 0)

\* A session is active, the lock is free, and the latest request was a start
\* that was rejected.
C21_Witness ==
  /\ mode = "web" /\ recordingMutex = NoThread
  /\ isRecording /\ Len(activeCaptures) > 0
  /\ resp.op = "start" /\ resp.code = "AlreadyRecording"

\* C22: while the web session is active, the file of every channel of the
\* session whose stream is running has the header written at its creation,
\* with the data length 0, and is as long as the 44 bytes of the header and
\* the channel's counter together, however many buffers were delivered.
C22_ActiveFile ==
  (mode = "web" /\ isRecording) =>
    \A i \in 1..Len(activeCaptures) :
      LET c == activeCaptures[i] IN
        chans[c].stream = "started" =>
          /\ FileOf(c).hdr.kind = "wav"
          /\ FileOf(c).hdr.data = 0
          /\ FileOf(c).len = HeaderSize + chans[c].totalBytesWritten

\* C23: a start request that comes after a stopped session creates
\* channels that did not exist before, with their counters at 0, and no
\* step of its device loop truncates or writes the file of a channel of a
\* completed session (a file whose header a stop request has rewritten
\* with the bytes recorded), whichever device it selects.
StartStep(t) ==
  /\ mode = "web"
  /\ pc[t] = "start_loop"
  /\ (pc'[t] # pc[t] \/ k'[t] # k[t])

CompletedFile(p) == fs[p].hdr.kind = "wav" /\ fs[p].hdr.data > 0

C23_RepeatedSessions ==
  [][\A t \in Threads :
       StartStep(t) =>
         /\ \A c \in DOMAIN chans' \ DOMAIN chans :
              /\ c > made
              /\ chans'[c].totalBytesWritten = 0
         /\ \A p \in DOMAIN fs : CompletedFile(p) => fs'[p] = fs[p]]_vars

====
